---- MODULE Spec2Model ----
(***************************************************************************)
(* State-machine model of the portfolio single-page application: the       *)
(* Portfolio list view (category build and technology build), the Contact  *)
(* submission form and the Blog list view.  One page view is mounted per   *)
(* run; the content API is the environment, which settles every request    *)
(* with a resolved or a rejected response of its own choosing.             *)
(***************************************************************************)
EXTENDS Integers, Sequences, FiniteSets

VARIABLES
    route,               \* the page view the router mounted
    crashed,             \* a render threw: React removed the whole tree
    getCount,            \* read requests (axios.get) the mounted view issued so far
    consoleErrors,       \* console.error calls of the mounted view so far
    unhandledRejections, \* promise rejections no catch received
    filterField,         \* Portfolio build: "category" or "technology"
    projects,            \* Portfolio: useState projects
    filteredProjects,    \* Portfolio: useState filteredProjects
    selectedCategory,    \* Portfolio: useState selectedCategory
    loading,             \* Portfolio: useState loading
    projectsReq,         \* Portfolio: the mount-time request's stage
    projectsResp,        \* Portfolio: response.data.results as delivered
    clickHistory,        \* Portfolio: the filter buttons clicked, in order
    formData,            \* Contact: useState formData
    isSubmitting,        \* Contact: useState isSubmitting
    submitStatus,        \* Contact: useState submitStatus
    inflightPosts,       \* Contact: bodies of the POSTs not yet settled
    postCount,           \* Contact: write requests (axios.post) issued so far
    submitAttempts,      \* Contact: clicks on the submit control so far
    lastClick,           \* Contact: what the last click on the submit control met
    outcomes,            \* Contact: outcomes of the settled POSTs, oldest first
    posts,               \* Blog: useState posts
    blogLoading,         \* Blog: useState loading
    currentPage,         \* Blog: useState currentPage
    totalPages,          \* Blog: useState totalPages
    blogReqs,            \* Blog: pages of the read requests not yet settled
    postsResp,           \* Blog: response.data.results as last delivered
    atTop,               \* Blog: the viewport is scrolled to the top
    lastCount,           \* Blog: response.data.count as last delivered
    path,                \* the URL path the router matched
    homeBuild,           \* Home build: "v2" reads the admin profile first, "v1" does not
    homeStep,            \* Home: position in the read chain of the pending read, 0 if none
    homeFailed,          \* Home: the catch block of fetchData ran
    adminProfile,        \* Home: useState adminProfile
    homeSkills,          \* Home: useState skills
    featuredProjects,    \* Home: useState featuredProjects
    recentPosts,         \* Home: useState recentPosts
    homeResp,            \* Home: response.data.results as delivered, per read
    aboutSkills,         \* About: useState skills
    allSkills,           \* About: fetchSkills' local allSkills
    aboutPage,           \* About: page of the pending skills read, 0 if none
    aboutFailed,         \* About: the catch block of fetchSkills ran
    aboutPages,          \* About: results and next of the pages delivered, in order
    post,                \* BlogPost: useState post
    bpLoading,           \* BlogPost: useState loading
    bpError,             \* BlogPost: useState error
    bpReqs,              \* BlogPost: slugs of the read requests not yet settled
    bpLast,              \* BlogPost: slug and outcome of the read settled last
    bpCurrent,           \* BlogPost: outcome of the read issued for the current slug
    lateReads,           \* read requests in flight whose view has been unmounted
    navCount,            \* navigations to another view so far
    lateGets,            \* read requests issued on behalf of unmounted views
    lateErrors           \* console.error calls on behalf of unmounted views

vars == << route, crashed, getCount, consoleErrors, unhandledRejections,
           filterField, projects, filteredProjects, selectedCategory, loading,
           projectsReq, projectsResp, clickHistory,
           formData, isSubmitting, submitStatus, inflightPosts, postCount,
           submitAttempts, lastClick, outcomes,
           posts, blogLoading, currentPage, totalPages, blogReqs, postsResp, atTop,
           lastCount, path,
           homeBuild, homeStep, homeFailed, adminProfile, homeSkills,
           featuredProjects, recentPosts, homeResp,
           aboutSkills, allSkills, aboutPage, aboutFailed, aboutPages,
           post, bpLoading, bpError, bpReqs, bpLast, bpCurrent,
           lateReads, navCount, lateGets, lateErrors >>

sharedVars == << crashed, getCount, consoleErrors, unhandledRejections >>

portfolioVars == << filterField, projects, filteredProjects, selectedCategory,
                    loading, projectsReq, projectsResp, clickHistory >>

contactVars == << formData, isSubmitting, submitStatus, inflightPosts,
                  postCount, submitAttempts, lastClick, outcomes >>

blogVars == << posts, blogLoading, currentPage, totalPages, blogReqs, postsResp,
              atTop, lastCount >>

homeVars == << homeBuild, homeStep, homeFailed, adminProfile, homeSkills,
               featuredProjects, recentPosts, homeResp >>

aboutVars == << aboutSkills, allSkills, aboutPage, aboutFailed, aboutPages >>

blogPostVars == << post, bpLoading, bpError, bpReqs, bpLast, bpCurrent >>

navVars == << lateReads, navCount, lateGets, lateErrors >>

\* the state of the views the Portfolio, Contact and Blog views never touch
otherViewVars == << path, homeVars, aboutVars, blogPostVars >>

(***************************************************************************)
(* Bounds of the model.                                                    *)
(***************************************************************************)
MaxItems == 3          \* longest results list the API returns
MaxFilterClicks == 2   \* filter-button clicks followed per run
MaxSubmitAttempts == 3 \* clicks on the submit control followed per run
MaxGets == 3           \* read requests the Blog view issues per run
MaxCount == 25         \* largest count field the posts endpoint returns
MaxPage == 4           \* largest page number followed
MaxNavs == 1           \* navigations to another view followed per run

(***************************************************************************)
(* JavaScript values.  A value that the code expects to be an array is a   *)
(* tagged record, so that undefined and a non-array object are values too. *)
(***************************************************************************)
Null == "<null>"

Undefined == [tag |-> "undefined", v |-> <<>>]

NotAList == [tag |-> "object", v |-> <<>>]

List(s) == [tag |-> "list", v |-> s]

IsList(x) == x.tag = "list"

\* Boolean(v) for a string-or-null value: null and "" are falsy
Truthy(v) == v # Null /\ v # ""

Range(s) == { s[i] : i \in 1..Len(s) }

RECURSIVE Distinct(_)
\* [...new Set(s)]: the distinct elements of s in insertion (first-seen) order
Distinct(s) ==
    IF s = <<>> THEN <<>>
    ELSE LET init == Distinct(SubSeq(s, 1, Len(s) - 1))
             last == s[Len(s)]
         IN IF last \in Range(init) THEN init ELSE Append(init, last)

RECURSIVE Concat(_)
\* the concatenation of a sequence of sequences (Array.prototype.flatMap's result)
Concat(ss) == IF ss = <<>> THEN <<>> ELSE Head(ss) \o Concat(Tail(ss))

(***************************************************************************)
(* The content API's project records.  A project carries a category        *)
(* (a string or null) and a technologies field (an array of strings, or    *)
(* absent); its id is its position in the results list.                    *)
(***************************************************************************)
ProjectKinds ==
    { [category |-> Null,  hasTech |-> FALSE, technologies |-> <<>>],
      [category |-> "",    hasTech |-> TRUE,  technologies |-> <<>>],
      [category |-> "web", hasTech |-> TRUE,  technologies |-> <<"react">>],
      [category |-> "ml",  hasTech |-> TRUE,  technologies |-> <<"django", "react">>],
      [category |-> "all", hasTech |-> TRUE,  technologies |-> <<"", "django">>] }

SeqsUpTo(S, n) == UNION { [1..k -> S] : k \in 0..n }

MkProjects(kinds) ==
    [i \in 1..Len(kinds) |->
        [id |-> i, category |-> kinds[i].category,
         hasTech |-> kinds[i].hasTech, technologies |-> kinds[i].technologies]]

ProjectLists == { MkProjects(ks) : ks \in SeqsUpTo(ProjectKinds, MaxItems) }

\* response.data.results of a resolved projects request
ProjectResults == { Undefined, NotAList } \cup { List(l) : l \in ProjectLists }

\* response.data itself is missing
NoData == [tag |-> "nodata", v |-> <<>>]

(***************************************************************************)
(* Portfolio view.                                                         *)
(***************************************************************************)
\* C30 mutant: the category buttons carry a fixed key next to the derived ones
categoriesWithFixedKey ==
    <<"all", "mobile">> \o
    Distinct(SelectSeq([i \in 1..Len(projects.v) |-> projects.v[i].category], Truthy))

\* ['all', ...new Set(projects.map(project => project.category).filter(Boolean))]
categories ==
    <<"all">> \o Distinct(SelectSeq([i \in 1..Len(projects.v) |-> projects.v[i].category],
                                    Truthy))

\* ['all', ...new Set(projects.flatMap(p => p.technologies ? p.technologies : []))]
technologies ==
    <<"all">> \o Distinct(Concat([i \in 1..Len(projects.v) |->
                    IF projects.v[i].hasTech THEN projects.v[i].technologies ELSE <<>>]))

\* the keys of the rendered filter buttons
FilterKeys == IF filterField = "category" THEN categories ELSE technologies

\* the predicate projects.filter is given in filterProjects
Matches(project, key) ==
    IF filterField = "category"
    THEN project.category = key
    ELSE project.hasTech /\ key \in Range(project.technologies)

\* C2 mutant: the 'all' branch keeps the narrowed list
FilteredForNoReset(key) ==
    IF key = "all" THEN filteredProjects
    ELSE List(SelectSeq(projects.v, LAMBDA p : Matches(p, key)))

\* C3 mutant: clicking the active filter again toggles it off
FilteredForToggle(key) ==
    IF key = "all" \/ (clickHistory # <<>> /\ key = selectedCategory) THEN projects
    ELSE List(SelectSeq(projects.v, LAMBDA p : Matches(p, key)))

\* C5 mutant: the predicate keeps the items that do not match
FilteredForNegated(key) ==
    IF key = "all" THEN projects
    ELSE List(SelectSeq(projects.v, LAMBDA p : ~Matches(p, key)))

\* the list filterProjects hands to setFilteredProjects
FilteredFor(key) ==
    IF key = "all" THEN projects
    ELSE List(SelectSeq(projects.v, LAMBDA p : Matches(p, key)))

\* the Portfolio render throws: projects.map or filteredProjects.length on a non-array
PortfolioRenderThrows(p, fp, ld) == ~IsList(p) \/ (~ld /\ ~IsList(fp))

\* C6 mutant: the success path forgets setFilteredProjects
FetchProjectsResolveNoFiltered ==
    /\ route = "portfolio" /\ projectsReq = "pending"
    /\ \E results \in ProjectResults :
        /\ projects' = results
        /\ filteredProjects' = filteredProjects
        /\ loading' = FALSE
        /\ projectsResp' = results
        /\ crashed' = PortfolioRenderThrows(results, filteredProjects, FALSE)
    /\ projectsReq' = "resolved"
    /\ UNCHANGED << route, getCount, consoleErrors, unhandledRejections,
                    filterField, selectedCategory, clickHistory >>
    /\ UNCHANGED << contactVars, blogVars, otherViewVars, navVars >>

\* fetchProjects, the request resolved with a response carrying data
FetchProjectsResolve ==
    /\ route = "portfolio" /\ projectsReq = "pending"
    /\ \E results \in ProjectResults :
        /\ projects' = results
        /\ filteredProjects' = results
        /\ loading' = FALSE
        /\ projectsResp' = results
        /\ crashed' = PortfolioRenderThrows(results, results, FALSE)
    /\ projectsReq' = "resolved"
    /\ UNCHANGED << route, getCount, consoleErrors, unhandledRejections,
                    filterField, selectedCategory, clickHistory >>
    /\ UNCHANGED << contactVars, blogVars, otherViewVars, navVars >>

\* fetchProjects, the request resolved without data: response.data.results throws
\* inside the try block and the catch block runs
FetchProjectsNoData ==
    /\ route = "portfolio" /\ projectsReq = "pending"
    /\ consoleErrors' = consoleErrors + 1
    /\ loading' = FALSE
    /\ projectsReq' = "resolved"
    /\ projectsResp' = NoData
    /\ UNCHANGED << route, crashed, getCount, unhandledRejections, filterField,
                    projects, filteredProjects, selectedCategory, clickHistory >>
    /\ UNCHANGED << contactVars, blogVars, otherViewVars, navVars >>

\* C7 mutant: no catch block around the request
FetchProjectsRejectUncaught ==
    /\ route = "portfolio" /\ projectsReq = "pending"
    /\ unhandledRejections' = unhandledRejections + 1
    /\ projectsReq' = "rejected"
    /\ UNCHANGED << route, crashed, getCount, consoleErrors, filterField, loading,
                    projects, filteredProjects, selectedCategory, projectsResp,
                    clickHistory >>
    /\ UNCHANGED << contactVars, blogVars, otherViewVars, navVars >>

\* fetchProjects, the request was rejected: the catch block
FetchProjectsReject ==
    /\ route = "portfolio" /\ projectsReq = "pending"
    /\ consoleErrors' = consoleErrors + 1
    /\ loading' = FALSE
    /\ projectsReq' = "rejected"
    /\ UNCHANGED << route, crashed, getCount, unhandledRejections, filterField,
                    projects, filteredProjects, selectedCategory, projectsResp,
                    clickHistory >>
    /\ UNCHANGED << contactVars, blogVars, otherViewVars, navVars >>

\* C20 mutant: the grid section has no empty branch
PortfolioEmptyMessageNever == FALSE

\* {filteredProjects.length === 0 ? <div className="no-projects"> : ...}
PortfolioEmptyMessage ==
    ~loading /\ ~crashed /\ IsList(filteredProjects) /\ Len(filteredProjects.v) = 0

\* ... : <div className="projects-grid">
PortfolioGridRendered ==
    ~loading /\ ~crashed /\ IsList(filteredProjects) /\ Len(filteredProjects.v) # 0

\* C27 mutant: the click narrows the list but keeps the old active key
FilterProjectsStaleKey ==
    /\ route = "portfolio" /\ ~crashed /\ ~loading
    /\ Len(clickHistory) < MaxFilterClicks
    /\ \E key \in Range(FilterKeys) :
        /\ filteredProjects' = FilteredFor(key)
        /\ clickHistory' = Append(clickHistory, key)
    /\ UNCHANGED << route, sharedVars, filterField, projects, loading, projectsReq,
                    projectsResp, selectedCategory >>
    /\ UNCHANGED << contactVars, blogVars, otherViewVars, navVars >>

\* C21 mutant: the click reloads the projects from the API
FilterProjectsRefetching ==
    /\ route = "portfolio" /\ ~crashed /\ ~loading
    /\ Len(clickHistory) < MaxFilterClicks
    /\ \E key \in Range(FilterKeys) :
        /\ selectedCategory' = key
        /\ filteredProjects' = FilteredFor(key)
        /\ clickHistory' = Append(clickHistory, key)
    /\ getCount' = getCount + 1
    /\ projectsReq' = "pending"
    /\ loading' = TRUE
    /\ UNCHANGED << route, crashed, consoleErrors, unhandledRejections, filterField,
                    projects, projectsResp >>
    /\ UNCHANGED << contactVars, blogVars, otherViewVars, navVars >>

\* a click on the rendered filter button of key: filterProjects(key)
FilterProjects ==
    /\ route = "portfolio" /\ ~crashed /\ ~loading
    /\ Len(clickHistory) < MaxFilterClicks
    /\ \E key \in Range(FilterKeys) :
        /\ selectedCategory' = key
        /\ filteredProjects' = FilteredFor(key)
        /\ clickHistory' = Append(clickHistory, key)
    /\ UNCHANGED << route, sharedVars, filterField, projects, loading, projectsReq,
                    projectsResp >>
    /\ UNCHANGED << contactVars, blogVars, otherViewVars, navVars >>

(***************************************************************************)
(* Contact view: the submission form.                                      *)
(***************************************************************************)
FieldNames == { "name", "email", "subject", "message" }

\* what the user can type into a field
FieldValues(f) ==
    CASE f = "email"   -> { "", "a", "a@b" }
      [] f = "subject" -> { "", "a", "b" }
      [] OTHER         -> { "", "a" }

\* useState({ name: '', email: '', subject: '', message: '' })
InitialFormData == [name |-> "", email |-> "", subject |-> "", message |-> ""]

\* C9 mutant: the reset leaves the subject in place
ResetFormDataKeepsSubject == [InitialFormData EXCEPT !.subject = formData.subject]

\* the object handleSubmit hands to setFormData after a resolved POST
ResetFormData == [name |-> "", email |-> "", subject |-> "", message |-> ""]

\* the browser's constraint validation: four required inputs, one of type email
FormValid ==
    /\ \A f \in FieldNames : formData[f] # ""
    /\ formData.email = "a@b"

\* C1 mutant: the submit control is never disabled
SubmitDisabledNever == FALSE

\* <button type="submit" disabled={isSubmitting}>
SubmitDisabled == isSubmitting

RemoveAt(s, i) == SubSeq(s, 1, i - 1) \o SubSeq(s, i + 1, Len(s))

\* handleChange: the user edits one field
HandleChange ==
    /\ route = "contact" /\ ~crashed
    /\ \E f \in FieldNames : \E v \in FieldValues(f) \ { formData[f] } :
        formData' = [formData EXCEPT ![f] = v]
    /\ UNCHANGED << route, sharedVars, isSubmitting, submitStatus, inflightPosts,
                    postCount, submitAttempts, lastClick, outcomes >>
    /\ UNCHANGED << portfolioVars, blogVars, otherViewVars, navVars >>

\* {submitStatus === 'success' && ...}
SuccessBannerShown == submitStatus = "success"

\* {submitStatus === 'error' && ...}
ErrorBannerShown == submitStatus = "error"

\* C11 mutant: handleSubmit starts the submission without setSubmitStatus(null)
ClickSubmitKeepsBanner ==
    /\ route = "contact" /\ ~crashed
    /\ submitAttempts < MaxSubmitAttempts
    /\ submitAttempts' = submitAttempts + 1
    /\ \/ /\ SubmitDisabled
          /\ lastClick' = "disabled"
          /\ UNCHANGED << isSubmitting, submitStatus, inflightPosts, postCount >>
       \/ /\ ~SubmitDisabled /\ ~FormValid
          /\ lastClick' = "invalid"
          /\ UNCHANGED << isSubmitting, submitStatus, inflightPosts, postCount >>
       \/ /\ ~SubmitDisabled /\ FormValid
          /\ lastClick' = "submitted"
          /\ isSubmitting' = TRUE
          /\ UNCHANGED submitStatus
          /\ inflightPosts' = Append(inflightPosts, formData)
          /\ postCount' = postCount + 1
    /\ UNCHANGED << route, sharedVars, formData, outcomes >>
    /\ UNCHANGED << portfolioVars, blogVars, otherViewVars, navVars >>

\* a click on the submit control; the browser dispatches the form's submit event,
\* and so runs handleSubmit, only from an enabled control and a valid form
ClickSubmit ==
    /\ route = "contact" /\ ~crashed
    /\ submitAttempts < MaxSubmitAttempts
    /\ submitAttempts' = submitAttempts + 1
    /\ \/ /\ SubmitDisabled
          /\ lastClick' = "disabled"
          /\ UNCHANGED << isSubmitting, submitStatus, inflightPosts, postCount >>
       \/ /\ ~SubmitDisabled /\ ~FormValid
          /\ lastClick' = "invalid"
          /\ UNCHANGED << isSubmitting, submitStatus, inflightPosts, postCount >>
       \/ /\ ~SubmitDisabled /\ FormValid
          /\ lastClick' = "submitted"
          /\ isSubmitting' = TRUE
          /\ submitStatus' = Null
          /\ inflightPosts' = Append(inflightPosts, formData)
          /\ postCount' = postCount + 1
    /\ UNCHANGED << route, sharedVars, formData, outcomes >>
    /\ UNCHANGED << portfolioVars, blogVars, otherViewVars, navVars >>

\* handleSubmit after the await, the POST resolved
PostResolve ==
    /\ route = "contact"
    /\ \E i \in 1..Len(inflightPosts) : inflightPosts' = RemoveAt(inflightPosts, i)
    /\ submitStatus' = "success"
    /\ formData' = ResetFormData
    /\ isSubmitting' = FALSE
    /\ outcomes' = Append(outcomes, "success")
    /\ UNCHANGED << route, sharedVars, postCount, submitAttempts, lastClick >>
    /\ UNCHANGED << portfolioVars, blogVars, otherViewVars, navVars >>

\* C10 mutant: the catch block resets the form as the success path does
PostRejectClearing ==
    /\ route = "contact"
    /\ \E i \in 1..Len(inflightPosts) : inflightPosts' = RemoveAt(inflightPosts, i)
    /\ consoleErrors' = consoleErrors + 1
    /\ submitStatus' = "error"
    /\ formData' = ResetFormData
    /\ isSubmitting' = FALSE
    /\ outcomes' = Append(outcomes, "error")
    /\ UNCHANGED << route, crashed, getCount, unhandledRejections, postCount,
                    submitAttempts, lastClick >>
    /\ UNCHANGED << portfolioVars, blogVars, otherViewVars, navVars >>

\* handleSubmit after the await, the POST was rejected: catch, then finally
PostReject ==
    /\ route = "contact"
    /\ \E i \in 1..Len(inflightPosts) : inflightPosts' = RemoveAt(inflightPosts, i)
    /\ consoleErrors' = consoleErrors + 1
    /\ submitStatus' = "error"
    /\ isSubmitting' = FALSE
    /\ outcomes' = Append(outcomes, "error")
    /\ UNCHANGED << route, crashed, getCount, unhandledRejections, formData, postCount,
                    submitAttempts, lastClick >>
    /\ UNCHANGED << portfolioVars, blogVars, otherViewVars, navVars >>

(***************************************************************************)
(* Blog list view.                                                         *)
(***************************************************************************)
\* the page size fetchPosts assumes
PageSize == 10

\* C12 mutant: the page count is rounded down
PagesForFloor(count) == count \div PageSize

\* Math.ceil(count / 10)
PagesFor(count) ==
    IF count % PageSize = 0 THEN count \div PageSize ELSE count \div PageSize + 1

\* the posts of page p, by id
PagePosts(p) == << 2 * p - 1, 2 * p >>

\* response.data.results of a resolved request for page p
PostResults(p) == { Undefined, NotAList, List(<<>>), List(PagePosts(p)) }

\* the Blog render throws: posts.length or posts.map on a non-array
BlogRenderThrows(ps, ld) == ~ld /\ ~IsList(ps)

\* {posts.length === 0 ? <div className="no-posts"> : ...}
BlogEmptyMessage == ~blogLoading /\ ~crashed /\ IsList(posts) /\ Len(posts.v) = 0

\* C14 mutant: the pagination block sits outside the non-empty branch
PaginationRenderedWhenEmpty == ~blogLoading /\ ~crashed /\ totalPages > 1

\* {totalPages > 1 && ...} inside the non-empty branch of the posts section
PaginationRendered ==
    /\ ~blogLoading /\ ~crashed
    /\ IsList(posts) /\ Len(posts.v) # 0
    /\ totalPages > 1

\* C13 mutant: the Previous button is never disabled
PreviousDisabledNever == FALSE

\* disabled={currentPage === 1}
PreviousDisabled == currentPage = 1

\* disabled={currentPage === totalPages}
NextDisabled == currentPage = totalPages

\* the Previous and Next buttons are unconditional children of the
\* pagination block
PreviousRendered == PaginationRendered

NextRendered == PaginationRendered

\* the pages the rendered controls pass to handlePageChange
ClickablePages ==
    (IF PreviousDisabled THEN {} ELSE { currentPage - 1 })
    \cup (IF NextDisabled THEN {} ELSE { currentPage + 1 })
    \cup 1..totalPages

\* C15 mutant: the resolved page is appended to the posts already shown
BlogFetchResolveAppending ==
    /\ route = "blog"
    /\ \E i \in 1..Len(blogReqs) :
        /\ blogReqs' = RemoveAt(blogReqs, i)
        /\ \E results \in PostResults(blogReqs[i]), count \in 0..MaxCount :
            IF crashed
            THEN UNCHANGED << posts, totalPages, blogLoading, crashed, postsResp,
                              lastCount >>
            ELSE /\ posts' = IF IsList(results) THEN List(posts.v \o results.v)
                                                ELSE results
                 /\ postsResp' = results
                 /\ lastCount' = count
                 /\ totalPages' = PagesFor(count)
                 /\ blogLoading' = FALSE
                 /\ crashed' = BlogRenderThrows(results, FALSE)
    /\ UNCHANGED << route, getCount, consoleErrors, unhandledRejections, currentPage,
                    atTop >>
    /\ UNCHANGED << portfolioVars, contactVars, otherViewVars, navVars >>

\* fetchPosts, the request resolved with a response carrying data
BlogFetchResolve ==
    /\ route = "blog"
    /\ \E i \in 1..Len(blogReqs) :
        /\ blogReqs' = RemoveAt(blogReqs, i)
        /\ \E results \in PostResults(blogReqs[i]), count \in 0..MaxCount :
            IF crashed
            THEN UNCHANGED << posts, totalPages, blogLoading, crashed, postsResp,
                              lastCount >>
            ELSE /\ posts' = results
                 /\ postsResp' = results
                 /\ lastCount' = count
                 /\ totalPages' = PagesFor(count)
                 /\ blogLoading' = FALSE
                 /\ crashed' = BlogRenderThrows(results, FALSE)
    /\ UNCHANGED << route, getCount, consoleErrors, unhandledRejections, currentPage,
                    atTop >>
    /\ UNCHANGED << portfolioVars, contactVars, otherViewVars, navVars >>

\* C26 mutant: the catch block empties the list
BlogFetchRejectClearing ==
    /\ route = "blog"
    /\ \E i \in 1..Len(blogReqs) : blogReqs' = RemoveAt(blogReqs, i)
    /\ consoleErrors' = consoleErrors + 1
    /\ blogLoading' = IF crashed THEN blogLoading ELSE FALSE
    /\ posts' = IF crashed THEN posts ELSE List(<<>>)
    /\ UNCHANGED << route, crashed, getCount, unhandledRejections, currentPage,
                    totalPages, postsResp, atTop, lastCount >>
    /\ UNCHANGED << portfolioVars, contactVars, otherViewVars, navVars >>

\* fetchPosts, the request was rejected, or resolved without data so that
\* response.data.results throws inside the try block: the catch block
BlogFetchReject ==
    /\ route = "blog"
    /\ \E i \in 1..Len(blogReqs) : blogReqs' = RemoveAt(blogReqs, i)
    /\ consoleErrors' = consoleErrors + 1
    /\ blogLoading' = IF crashed THEN blogLoading ELSE FALSE
    /\ UNCHANGED << route, crashed, getCount, unhandledRejections, posts, currentPage,
                    totalPages, postsResp, atTop, lastCount >>
    /\ UNCHANGED << portfolioVars, contactVars, otherViewVars, navVars >>

\* handlePageChange(page) from a rendered pagination control; a changed
\* currentPage re-runs the effect, which issues the read request for the page
HandlePageChange ==
    /\ route = "blog" /\ PaginationRendered
    /\ getCount < MaxGets
    /\ \E page \in ClickablePages :
        /\ page <= MaxPage
        /\ currentPage' = page
        /\ atTop' = TRUE
        /\ IF page = currentPage
           THEN UNCHANGED << blogReqs, getCount >>
           ELSE /\ blogReqs' = Append(blogReqs, page)
                /\ getCount' = getCount + 1
    /\ UNCHANGED << route, crashed, consoleErrors, unhandledRejections, posts,
                    blogLoading, totalPages, postsResp, lastCount >>
    /\ UNCHANGED << portfolioVars, contactVars, otherViewVars, navVars >>

\* the user scrolls down the page
UserScroll ==
    /\ route = "blog" /\ ~crashed /\ atTop
    /\ atTop' = FALSE
    /\ UNCHANGED << route, sharedVars, posts, blogLoading, currentPage, totalPages,
                    blogReqs, postsResp, lastCount >>
    /\ UNCHANGED << portfolioVars, contactVars, otherViewVars, navVars >>

(***************************************************************************)
(* Home view: fetchData awaits its reads one after the other inside one    *)
(* try block.                                                              *)
(***************************************************************************)
\* the most skills, and the most projects or posts, one response delivers
MaxSkills == 7
MaxHomeItems == 4

\* response.data.results.slice(0, 6)
SkillsLimit == 6

\* .filter(project => project.featured).slice(0, 3)
FeaturedLimit == 3

\* response.data.results.slice(0, 3)
PostsLimit == 3

\* the awaits of fetchData in program order
HomeReads(build) ==
    IF build = "v2"
    THEN << "profile", "skills", "projects", "posts" >>
    ELSE << "skills", "projects", "posts" >>

\* C17 mutant: the slice keeps every element
SliceAll(s, n) == s

\* Array.prototype.slice(0, n)
Slice(s, n) == SubSeq(s, 1, IF Len(s) < n THEN Len(s) ELSE n)

\* .filter(project => project.featured)
Featured(s) == SelectSeq(s, LAMBDA p : p.featured)

Ids(n) == [i \in 1..n |-> i]

\* what a read of the Home view can deliver as response.data (the profile)
\* or response.data.results (the lists)
HomeData(read) ==
    CASE read = "profile" -> { "admin" }
      [] read = "skills" -> { Undefined } \cup { List(Ids(n)) : n \in 0..MaxSkills }
      [] read = "projects" ->
            { Undefined } \cup
            { List([i \in 1..Len(f) |-> [id |-> i, featured |-> f[i]]]) :
                f \in SeqsUpTo(BOOLEAN, MaxHomeItems) }
      [] read = "posts" -> { Undefined } \cup { List(Ids(n)) : n \in 0..MaxHomeItems }

NoHomeResp == [skills |-> NoData, projects |-> NoData, posts |-> NoData]

HomeUnmounted ==
    /\ homeBuild = "v2" /\ homeStep = 0 /\ homeFailed = FALSE
    /\ adminProfile = Null
    /\ homeSkills = <<>> /\ featuredProjects = <<>> /\ recentPosts = <<>>
    /\ homeResp = NoHomeResp

\* fetchData, the awaited read resolved: its slice of state is set and the
\* next await issues the next read; results without slice/filter throw
\* inside the try block and the catch block runs
HomeReadResolve ==
    /\ route = "home" /\ homeStep > 0
    /\ LET read == HomeReads(homeBuild)[homeStep] IN
       \E data \in HomeData(read) :
          IF read # "profile" /\ ~IsList(data)
          THEN /\ consoleErrors' = consoleErrors + 1
               /\ homeFailed' = TRUE
               /\ homeStep' = 0
               /\ UNCHANGED << getCount, adminProfile, homeSkills, featuredProjects,
                               recentPosts, homeResp >>
          ELSE /\ adminProfile' = IF read = "profile" THEN data ELSE adminProfile
               /\ homeSkills' =
                    IF read = "skills" THEN Slice(data.v, SkillsLimit) ELSE homeSkills
               /\ featuredProjects' =
                    IF read = "projects"
                    THEN Slice(Featured(data.v), FeaturedLimit)
                    ELSE featuredProjects
               /\ recentPosts' =
                    IF read = "posts" THEN Slice(data.v, PostsLimit) ELSE recentPosts
               /\ homeResp' =
                    IF read = "profile" THEN homeResp
                    ELSE [homeResp EXCEPT ![read] = data]
               /\ IF homeStep < Len(HomeReads(homeBuild))
                  THEN /\ homeStep' = homeStep + 1
                       /\ getCount' = getCount + 1
                  ELSE /\ homeStep' = 0
                       /\ UNCHANGED getCount
               /\ UNCHANGED << consoleErrors, homeFailed >>
    /\ UNCHANGED << route, path, crashed, unhandledRejections, homeBuild >>
    /\ UNCHANGED << portfolioVars, contactVars, blogVars, aboutVars, blogPostVars, navVars >>

\* fetchData, the awaited read was rejected: the catch block logs, and the
\* awaits after it are never reached
HomeReadReject ==
    /\ route = "home" /\ homeStep > 0
    /\ consoleErrors' = consoleErrors + 1
    /\ homeFailed' = TRUE
    /\ homeStep' = 0
    /\ UNCHANGED << route, path, crashed, getCount, unhandledRejections, homeBuild,
                    adminProfile, homeSkills, featuredProjects, recentPosts,
                    homeResp >>
    /\ UNCHANGED << portfolioVars, contactVars, blogVars, aboutVars, blogPostVars, navVars >>

(***************************************************************************)
(* About view with the paginated skills read.                              *)
(***************************************************************************)
\* the most pages the skills endpoint chains through next
MaxSkillPages == 2

\* the skills page p of the API carries when it is full
PageSkills(p) == << 2 * p - 1, 2 * p >>

SkillResults(p) == { Undefined, List(<<>>), List(PageSkills(p)) }

AboutUnmounted ==
    /\ aboutSkills = <<>> /\ allSkills = <<>>
    /\ aboutPage = 0 /\ aboutFailed = FALSE /\ aboutPages = <<>>

\* response.data.next of page p: a URL (TRUE) or null; the API's chain of
\* pages ends at the latest with page MaxSkillPages
NextOf(p) == IF p < MaxSkillPages THEN BOOLEAN ELSE { FALSE }

\* C22 mutant: the new page is put in front of the pages already fetched
AboutPageResolvePrepending ==
    /\ route = "about" /\ aboutPage > 0
    /\ \E results \in SkillResults(aboutPage), next \in NextOf(aboutPage) :
          IF ~IsList(results)
          THEN /\ consoleErrors' = consoleErrors + 1
               /\ aboutFailed' = TRUE
               /\ aboutPage' = 0
               /\ UNCHANGED << getCount, allSkills, aboutSkills, aboutPages >>
          ELSE /\ allSkills' = results.v \o allSkills
               /\ aboutPages' = Append(aboutPages, [results |-> results.v, next |-> next])
               /\ IF next
                  THEN /\ aboutPage' = aboutPage + 1
                       /\ getCount' = getCount + 1
                       /\ UNCHANGED aboutSkills
                  ELSE /\ aboutPage' = 0
                       /\ aboutSkills' = allSkills'
                       /\ UNCHANGED getCount
               /\ UNCHANGED << consoleErrors, aboutFailed >>
    /\ UNCHANGED << route, path, crashed, unhandledRejections >>
    /\ UNCHANGED << portfolioVars, contactVars, blogVars, homeVars, blogPostVars, navVars >>

\* fetchSkills, one turn of the while loop: the awaited page resolved;
\* spreading results that are not iterable throws inside the try block
AboutPageResolve ==
    /\ route = "about" /\ aboutPage > 0
    /\ \E results \in SkillResults(aboutPage), next \in NextOf(aboutPage) :
          IF ~IsList(results)
          THEN /\ consoleErrors' = consoleErrors + 1
               /\ aboutFailed' = TRUE
               /\ aboutPage' = 0
               /\ UNCHANGED << getCount, allSkills, aboutSkills, aboutPages >>
          ELSE /\ allSkills' = allSkills \o results.v
               /\ aboutPages' = Append(aboutPages, [results |-> results.v, next |-> next])
               /\ IF next
                  THEN /\ aboutPage' = aboutPage + 1
                       /\ getCount' = getCount + 1
                       /\ UNCHANGED aboutSkills
                  ELSE /\ aboutPage' = 0
                       /\ aboutSkills' = allSkills'
                       /\ UNCHANGED getCount
               /\ UNCHANGED << consoleErrors, aboutFailed >>
    /\ UNCHANGED << route, path, crashed, unhandledRejections >>
    /\ UNCHANGED << portfolioVars, contactVars, blogVars, homeVars, blogPostVars, navVars >>

\* C29 mutant: the catch block commits the pages fetched so far
AboutPageRejectCommitting ==
    /\ route = "about" /\ aboutPage > 0
    /\ consoleErrors' = consoleErrors + 1
    /\ aboutFailed' = TRUE
    /\ aboutPage' = 0
    /\ aboutSkills' = allSkills
    /\ UNCHANGED << route, path, crashed, getCount, unhandledRejections, allSkills,
                    aboutPages >>
    /\ UNCHANGED << portfolioVars, contactVars, blogVars, homeVars, blogPostVars, navVars >>

\* fetchSkills, the awaited page was rejected: the catch block logs
AboutPageReject ==
    /\ route = "about" /\ aboutPage > 0
    /\ consoleErrors' = consoleErrors + 1
    /\ aboutFailed' = TRUE
    /\ aboutPage' = 0
    /\ UNCHANGED << route, path, crashed, getCount, unhandledRejections, allSkills,
                    aboutSkills, aboutPages >>
    /\ UNCHANGED << portfolioVars, contactVars, blogVars, homeVars, blogPostVars, navVars >>

(***************************************************************************)
(* BlogPost view: the detail view of /blog/:slug.                          *)
(***************************************************************************)
Slugs == { "a", "b" }

\* useParams() on /blog/:slug
SlugOf(p) == IF p = "/blog/a" THEN "a" ELSE "b"

PathOfSlug(s) == IF s = "a" THEN "/blog/a" ELSE "/blog/b"

NoneSettled == [slug |-> Null, outcome |-> "none"]

BlogPostUnmounted ==
    /\ post = Null /\ bpLoading = TRUE /\ bpError = Null
    /\ bpReqs = <<>> /\ bpLast = NoneSettled /\ bpCurrent = "none"

\* the three returns of the BlogPost render
BlogPostView ==
    IF bpLoading THEN "loading"
    ELSE IF bpError # Null \/ post = Null THEN "not-found"
    ELSE "loaded"

\* the read at position i of bpReqs is the one the effect issued last, for
\* the current slug, and it has not settled yet
IsCurrentRead(i) == bpCurrent = "pending" /\ i = Len(bpReqs)

\* fetchPost, the request resolved: response.data is the post of the
\* requested slug, or null when the resource is absent
BlogPostResolve ==
    /\ route = "blogpost"
    /\ \E i \in 1..Len(bpReqs) :
        /\ bpReqs' = RemoveAt(bpReqs, i)
        /\ \E data \in { Null, bpReqs[i] } :
            /\ post' = data
            /\ bpLast' = [slug |-> bpReqs[i],
                          outcome |-> IF data = Null THEN "absent" ELSE "post"]
            /\ bpCurrent' = IF IsCurrentRead(i) THEN bpLast'.outcome ELSE bpCurrent
    /\ bpLoading' = FALSE
    /\ UNCHANGED << route, path, sharedVars, bpError >>
    /\ UNCHANGED << portfolioVars, contactVars, blogVars, homeVars, aboutVars, navVars >>

\* fetchPost, the request was rejected: the catch block
BlogPostReject ==
    /\ route = "blogpost"
    /\ \E i \in 1..Len(bpReqs) :
        /\ bpReqs' = RemoveAt(bpReqs, i)
        /\ bpLast' = [slug |-> bpReqs[i], outcome |-> "rejected"]
        /\ bpCurrent' = IF IsCurrentRead(i) THEN "rejected" ELSE bpCurrent
    /\ consoleErrors' = consoleErrors + 1
    /\ bpError' = "Post not found"
    /\ bpLoading' = FALSE
    /\ UNCHANGED << route, path, crashed, getCount, unhandledRejections, post >>
    /\ UNCHANGED << portfolioVars, contactVars, blogVars, homeVars, aboutVars, navVars >>

\* navigation to the post of another slug: the router keeps BlogPost mounted
\* with its state, and the effect re-runs because slug changed
SlugChange ==
    /\ route = "blogpost"
    /\ getCount < MaxGets
    /\ \E s \in Slugs \ { SlugOf(path) } :
        /\ path' = PathOfSlug(s)
        /\ bpReqs' = Append(bpReqs, s)
    /\ bpCurrent' = "pending"
    /\ getCount' = getCount + 1
    /\ UNCHANGED << route, crashed, consoleErrors, unhandledRejections, post,
                    bpLoading, bpError, bpLast >>
    /\ UNCHANGED << portfolioVars, contactVars, blogVars, homeVars, aboutVars, navVars >>

(***************************************************************************)
(* The application: the router mounts the page view of the opened path,    *)
(* and the view's mount effect issues its read request.                    *)
(***************************************************************************)
\* the paths a browser opens the application at; "/nope" matches no route
Paths == { "/", "/about", "/portfolio", "/blog", "/blog/a", "/blog/b", "/contact",
           "/nope" }

\* <Routes>: the element of the first route whose path matches
RouteFor(p) ==
    CASE p = "/" -> "home"
      [] p = "/about" -> "about"
      [] p = "/portfolio" -> "portfolio"
      [] p = "/blog" -> "blog"
      [] p \in { "/blog/a", "/blog/b" } -> "blogpost"
      [] p = "/contact" -> "contact"
      [] OTHER -> "none"

\* Navbar, main and Footer are siblings of <Routes> under one root without
\* an error boundary: a render that throws unmounts all of them
ShellRendered == ~crashed

\* the page view rendered inside main
ViewRendered == IF crashed \/ route = "none" THEN {} ELSE { route }

PortfolioUnmounted ==
    /\ filterField = "category"
    /\ projects = List(<<>>) /\ filteredProjects = List(<<>>)
    /\ selectedCategory = "all" /\ loading = TRUE
    /\ projectsReq = "none" /\ projectsResp = NoData /\ clickHistory = <<>>

ContactInitial ==
    /\ formData = InitialFormData
    /\ isSubmitting = FALSE /\ submitStatus = Null
    /\ inflightPosts = <<>> /\ postCount = 0 /\ submitAttempts = 0
    /\ lastClick = "none"
    /\ outcomes = <<>>

BlogUnmounted ==
    /\ posts = List(<<>>) /\ blogLoading = TRUE
    /\ currentPage = 1 /\ totalPages = 1
    /\ blogReqs = <<>> /\ postsResp = NoData /\ atTop = TRUE /\ lastCount = 0

MountPortfolio ==
    /\ route = "portfolio"
    /\ filterField \in { "category", "technology" }
    /\ projects = List(<<>>) /\ filteredProjects = List(<<>>)
    /\ selectedCategory = "all" /\ loading = TRUE
    /\ projectsReq = "pending" /\ projectsResp = NoData /\ clickHistory = <<>>
    /\ getCount = 1
    /\ ContactInitial /\ BlogUnmounted
    /\ HomeUnmounted /\ AboutUnmounted /\ BlogPostUnmounted

MountContact ==
    /\ route = "contact"
    /\ ContactInitial
    /\ getCount = 0
    /\ PortfolioUnmounted /\ BlogUnmounted
    /\ HomeUnmounted /\ AboutUnmounted /\ BlogPostUnmounted

MountBlog ==
    /\ route = "blog"
    /\ posts = List(<<>>) /\ blogLoading = TRUE
    /\ currentPage = 1 /\ totalPages = 1
    /\ blogReqs = << 1 >> /\ postsResp = NoData /\ atTop = TRUE /\ lastCount = 0
    /\ getCount = 1
    /\ PortfolioUnmounted /\ ContactInitial
    /\ HomeUnmounted /\ AboutUnmounted /\ BlogPostUnmounted

\* Home mounts and fetchData issues its first read
MountHome ==
    /\ route = "home"
    /\ homeBuild \in { "v1", "v2" }
    /\ homeStep = 1 /\ homeFailed = FALSE
    /\ adminProfile = Null
    /\ homeSkills = <<>> /\ featuredProjects = <<>> /\ recentPosts = <<>>
    /\ homeResp = NoHomeResp
    /\ getCount = 1
    /\ PortfolioUnmounted /\ ContactInitial /\ BlogUnmounted
    /\ AboutUnmounted /\ BlogPostUnmounted

\* the About state once fetchSkills has requested the first page
AboutMounted ==
    /\ aboutSkills = <<>> /\ allSkills = <<>>
    /\ aboutPage = 1 /\ aboutFailed = FALSE /\ aboutPages = <<>>

\* the BlogPost state once fetchPost has requested the post of the slug
BlogPostMounted ==
    /\ post = Null /\ bpLoading = TRUE /\ bpError = Null
    /\ bpReqs = << SlugOf(path) >> /\ bpLast = NoneSettled /\ bpCurrent = "pending"

\* About mounts and fetchSkills requests the first page
MountAbout ==
    /\ route = "about"
    /\ AboutMounted
    /\ getCount = 1
    /\ PortfolioUnmounted /\ ContactInitial /\ BlogUnmounted
    /\ HomeUnmounted /\ BlogPostUnmounted

\* BlogPost mounts and fetchPost requests the post of the slug
MountBlogPost ==
    /\ route = "blogpost"
    /\ BlogPostMounted
    /\ getCount = 1
    /\ PortfolioUnmounted /\ ContactInitial /\ BlogUnmounted
    /\ HomeUnmounted /\ AboutUnmounted

\* no route matches: Routes renders nothing inside main
MountNone ==
    /\ route = "none"
    /\ getCount = 0
    /\ PortfolioUnmounted /\ ContactInitial /\ BlogUnmounted
    /\ HomeUnmounted /\ AboutUnmounted /\ BlogPostUnmounted

\* the read requests of the mounted view that are in flight, each with the
\* number of further reads its async function goes on to issue at most
PendingReads ==
    CASE route = "portfolio" ->
            IF projectsReq = "pending"
            THEN << [view |-> "portfolio", left |-> 0] >> ELSE <<>>
      [] route = "blog" -> [i \in 1..Len(blogReqs) |-> [view |-> "blog", left |-> 0]]
      [] route = "home" ->
            IF homeStep > 0
            THEN << [view |-> "home", left |-> Len(HomeReads(homeBuild)) - homeStep] >>
            ELSE <<>>
      [] route = "about" ->
            IF aboutPage > 0
            THEN << [view |-> "about", left |-> MaxSkillPages - aboutPage] >>
            ELSE <<>>
      [] route = "blogpost" ->
            [i \in 1..Len(bpReqs) |-> [view |-> "blogpost", left |-> 0]]
      [] OTHER -> <<>>

\* the navbar link followed: to About, and from About to a blog post
NavTarget(r) == IF r = "about" THEN "/blog/a" ELSE "/about"

\* the user leaves a view whose read is in flight: the router unmounts it,
\* its state is dropped and nothing cancels the request; the view of the
\* new path mounts and issues its own read
Navigate ==
    /\ ~crashed /\ navCount < MaxNavs
    /\ PendingReads # <<>>
    /\ path' = NavTarget(route) /\ route' = RouteFor(path')
    /\ navCount' = navCount + 1
    /\ lateReads' = lateReads \o PendingReads
    /\ getCount' = 1 /\ consoleErrors' = 0
    \* the unmounted views hold no state: the values of PortfolioUnmounted,
    \* BlogUnmounted and HomeUnmounted
    /\ filterField' = "category"
    /\ projects' = List(<<>>) /\ filteredProjects' = List(<<>>)
    /\ selectedCategory' = "all" /\ loading' = TRUE
    /\ projectsReq' = "none" /\ projectsResp' = NoData /\ clickHistory' = <<>>
    /\ posts' = List(<<>>) /\ blogLoading' = TRUE
    /\ currentPage' = 1 /\ totalPages' = 1
    /\ blogReqs' = <<>> /\ postsResp' = NoData /\ atTop' = TRUE /\ lastCount' = 0
    /\ homeBuild' = "v2" /\ homeStep' = 0 /\ homeFailed' = FALSE
    /\ adminProfile' = Null
    /\ homeSkills' = <<>> /\ featuredProjects' = <<>> /\ recentPosts' = <<>>
    /\ homeResp' = NoHomeResp
    \* About mounted and BlogPost unmounted, or the reverse
    /\ aboutSkills' = <<>> /\ allSkills' = <<>>
    /\ aboutPage' = (IF route' = "about" THEN 1 ELSE 0)
    /\ aboutFailed' = FALSE /\ aboutPages' = <<>>
    /\ post' = Null /\ bpLoading' = TRUE /\ bpError' = Null
    /\ bpReqs' = (IF route' = "blogpost" THEN << SlugOf(path') >> ELSE <<>>)
    /\ bpLast' = NoneSettled
    /\ bpCurrent' = (IF route' = "blogpost" THEN "pending" ELSE "none")
    /\ UNCHANGED << crashed, unhandledRejections, contactVars, lateGets, lateErrors >>

\* C23 mutant: the late response of an unmounted view is written to the
\* posts of the page
LateResolveWriting ==
    /\ \E i \in 1..Len(lateReads) :
          /\ lateReads' = RemoveAt(lateReads, i)
          /\ posts' = List(PagePosts(1))
    /\ UNCHANGED << route, path, sharedVars, portfolioVars, contactVars, homeVars,
                    aboutVars, blogPostVars, navCount, lateGets, lateErrors >>
    /\ UNCHANGED << blogLoading, currentPage, totalPages, blogReqs, postsResp, atTop,
                    lastCount >>

\* a read of an unmounted view resolved: its setters do nothing, and a
\* Home or About fetch function goes on to its next await
LateResolve ==
    /\ \E i \in 1..Len(lateReads) :
          \/ /\ lateReads[i].left > 0
             /\ lateReads' = [lateReads EXCEPT ![i].left = @ - 1]
             /\ lateGets' = lateGets + 1
          \/ /\ lateReads[i].view # "home" \/ lateReads[i].left = 0
             /\ lateReads' = RemoveAt(lateReads, i)
             /\ UNCHANGED lateGets
    /\ UNCHANGED << route, path, sharedVars, portfolioVars, contactVars, blogVars,
                    homeVars, aboutVars, blogPostVars, navCount, lateErrors >>

\* a read of an unmounted view was rejected, or resolved without the data
\* its function reads: the catch block logs
LateReject ==
    /\ \E i \in 1..Len(lateReads) : lateReads' = RemoveAt(lateReads, i)
    /\ lateErrors' = lateErrors + 1
    /\ UNCHANGED << route, path, sharedVars, portfolioVars, contactVars, blogVars,
                    homeVars, aboutVars, blogPostVars, navCount, lateGets >>

Init ==
    /\ crashed = FALSE /\ consoleErrors = 0 /\ unhandledRejections = 0
    /\ lateReads = <<>> /\ navCount = 0 /\ lateGets = 0 /\ lateErrors = 0
    /\ path \in Paths /\ route = RouteFor(path)
    /\ \/ MountPortfolio
       \/ MountContact
       \/ MountBlog
       \/ MountHome
       \/ MountAbout
       \/ MountBlogPost
       \/ MountNone

Next ==
    \/ FetchProjectsResolve
    \/ FetchProjectsNoData
    \/ FetchProjectsReject
    \/ FilterProjects
    \/ HandleChange
    \/ ClickSubmit
    \/ PostResolve
    \/ PostReject
    \/ BlogFetchResolve
    \/ BlogFetchReject
    \/ HandlePageChange
    \/ UserScroll
    \/ HomeReadResolve
    \/ HomeReadReject
    \/ AboutPageResolve
    \/ AboutPageReject
    \/ BlogPostResolve
    \/ BlogPostReject
    \/ SlugChange
    \/ Navigate
    \/ LateResolve
    \/ LateReject

Spec == Init /\ [][Next]_vars

(***************************************************************************)
(* Properties.                                                             *)
(***************************************************************************)
Last(s) == s[Len(s)]

\* the Portfolio request resolved with a results list
FetchedList == route = "portfolio" /\ projectsReq = "resolved" /\ IsList(projectsResp)

\* the values an item's filter field holds (none for null, undefined or an empty list)
FieldValuesOf(p) ==
    IF filterField = "category"
    THEN { p.category } \ { Null }
    ELSE IF p.hasTech THEN Range(p.technologies) ELSE {}

\* the position in items of the first item whose filter field holds value
FirstSeen(items, value) ==
    CHOOSE i \in 1..Len(items) :
        /\ value \in FieldValuesOf(items[i])
        /\ \A j \in 1..(i - 1) : value \notin FieldValuesOf(items[j])

\* C1: at most one message-submission POST is in flight in every reachable
\* state, and a click on the submit control made while isSubmitting is true
\* issues no write request.
C1_SingleInFlightSubmission ==
    /\ [](Len(inflightPosts) <= 1)
    /\ [][(submitAttempts' # submitAttempts /\ isSubmitting)
            => (postCount' = postCount /\ inflightPosts' = inflightPosts)]_vars

\* C1 witness: a click met the disabled control while the one POST was in flight
C1_Witness ==
    /\ lastClick = "disabled" /\ isSubmitting
    /\ Len(inflightPosts) = 1 /\ postCount = 1 /\ submitAttempts = 2

\* C2: after a resolved fetch, clicking a derived filter key and then "all"
\* leaves filteredProjects equal to the fetched results list, same elements in
\* the same order.
C2_FilterRoundTrip ==
    (/\ FetchedList
     /\ Len(clickHistory) >= 2
     /\ Last(clickHistory) = "all"
     /\ clickHistory[Len(clickHistory) - 1] \in Range(FilterKeys))
    => filteredProjects = projectsResp

\* C2 witness: a narrowing filter was applied to three items and "all" restored them
C2_Witness ==
    /\ FetchedList
    /\ clickHistory = << "web", "all" >>
    /\ Len(FilteredFor("web").v) = 1
    /\ Len(filteredProjects.v) = 3

\* C3: a click on the filter button that was clicked last changes neither
\* filteredProjects nor selectedCategory.
C3_FilterIdempotent ==
    [][(/\ clickHistory # <<>>
        /\ Len(clickHistory') = Len(clickHistory) + 1
        /\ Last(clickHistory') = Last(clickHistory))
       => (filteredProjects' = filteredProjects /\ selectedCategory' = selectedCategory)]_vars

\* C3 witness: a narrowing filter was clicked twice in a row
C3_Witness ==
    /\ FetchedList
    /\ Len(clickHistory) = 2 /\ clickHistory[1] = clickHistory[2]
    /\ clickHistory[1] # "all"
    /\ Len(filteredProjects.v) < Len(projects.v)
    /\ Len(filteredProjects.v) > 0

\* C4: the filter keys are "all" followed by the distinct non-empty values of
\* the filter field in first-seen order; empty, null and undefined values
\* contribute no key.
C4_FilterKeysClaim ==
    FetchedList =>
        LET keys == FilterKeys
            rest == SubSeq(keys, 2, Len(keys))
            values == (UNION { FieldValuesOf(projects.v[i]) : i \in 1..Len(projects.v) })
                        \ { "", Null }
        IN /\ keys[1] = "all"
           /\ Range(rest) = values
           /\ \A i, j \in 1..Len(rest) : i < j =>
                /\ rest[i] # rest[j]
                /\ FirstSeen(projects.v, rest[i]) <= FirstSeen(projects.v, rest[j])

\* C4 on the category build alone: the claim holds there
C4_CategoryBuildKeys == filterField = "category" => C4_FilterKeysClaim

\* C5: after a click on the button of key, selectedCategory is key; under
\* "all" filteredProjects is the whole of projects, under any other key it is
\* exactly the items whose filter field matches key, in their original order;
\* an item whose filter field is null is visible under "all" only.
C5_ApplyFilter ==
    (FetchedList /\ clickHistory # <<>>) =>
        LET key == Last(clickHistory)
            shown == filteredProjects.v
        IN /\ selectedCategory = key
           /\ IsList(filteredProjects)
           /\ key = "all" => filteredProjects = projects
           /\ key # "all" =>
                /\ \A n \in 1..Len(shown) :
                      /\ shown[n].id \in 1..Len(projects.v)
                      /\ shown[n] = projects.v[shown[n].id]
                /\ \A m, n \in 1..Len(shown) : m < n => shown[m].id < shown[n].id
                /\ \A i \in 1..Len(projects.v) :
                      (projects.v[i] \in Range(shown)) <=> (key \in FieldValuesOf(projects.v[i]))
           /\ \A i \in 1..Len(projects.v) :
                FieldValuesOf(projects.v[i]) = {} =>
                    ((projects.v[i] \in Range(shown)) <=> (key = "all"))

\* C5 witness: a key kept two of three items and hid the one with a null field
C5_Witness ==
    /\ FetchedList /\ clickHistory # <<>> /\ Last(clickHistory) # "all"
    /\ Len(projects.v) = 3 /\ Len(filteredProjects.v) = 2
    /\ FieldValuesOf(projects.v[2]) = {}
    /\ filteredProjects.v[1].id = 1 /\ filteredProjects.v[2].id = 3

\* C6: the Portfolio view issues one read request, at mount; loading is true
\* while it is pending; once it has resolved with a results list, projects is
\* that list and loading is false, and until a filter is clicked
\* filteredProjects is that list too and selectedCategory is "all".
C6_LoadAllSuccess ==
    route = "portfolio" =>
        /\ getCount = 1
        /\ projectsReq = "pending" => loading
        /\ (projectsReq = "resolved" /\ IsList(projectsResp)) =>
              /\ projects = projectsResp
              /\ ~loading
              /\ clickHistory = <<>> =>
                    (filteredProjects = projectsResp /\ selectedCategory = "all")

\* C6 witness: the request resolved with three items and no filter was clicked yet
C6_Witness ==
    /\ FetchedList /\ clickHistory = <<>>
    /\ Len(projectsResp.v) = 3 /\ ~loading /\ ~crashed

\* C7: once the mount-time read is rejected, loading is false, projects and
\* filteredProjects are empty, one diagnostic is logged, no rejection is
\* unhandled, the view has not crashed and no further read request is issued.
C7_LoadAllFailure ==
    (route = "portfolio" /\ projectsReq = "rejected") =>
        /\ ~loading
        /\ projects = List(<<>>) /\ filteredProjects = List(<<>>)
        /\ consoleErrors = 1
        /\ unhandledRejections = 0
        /\ ~crashed
        /\ getCount = 1

\* C7 witness: the request was rejected and the user clicked the one filter button
C7_Witness ==
    /\ route = "portfolio" /\ projectsReq = "rejected"
    /\ clickHistory = << "all" >> /\ ~loading

\* C8: a list response that resolved without a results list leaves the view
\* with a list of items, loading false and no crash, in the Portfolio view and
\* in the Blog view.
C8_MalformedResultsClaim ==
    /\ (route = "portfolio" /\ projectsReq = "resolved" /\ ~IsList(projectsResp))
          => (IsList(projects) /\ ~loading /\ ~crashed)
    /\ (route = "blog" /\ ~blogLoading /\ ~IsList(postsResp))
          => (IsList(posts) /\ ~crashed)

\* C8, Blog view alone
C8_BlogMalformedResultsClaim == route = "blog" => C8_MalformedResultsClaim

\* C9: when a submission POST resolves, submitStatus becomes "success", the
\* four fields become empty strings and isSubmitting becomes false.
C9_SubmitSuccess ==
    [][(Len(outcomes') = Len(outcomes) + 1 /\ Last(outcomes') = "success")
       => (/\ submitStatus' = "success"
           /\ \A f \in FieldNames : formData'[f] = ""
           /\ ~isSubmitting'
           /\ ~SubmitDisabled')]_vars

\* C9 witness: a POST resolved and left the banner, the empty form and the enabled control
C9_Witness ==
    /\ outcomes # <<>> /\ Last(outcomes) = "success"
    /\ submitStatus = "success" /\ formData = InitialFormData /\ ~isSubmitting
    /\ inflightPosts = <<>>

\* C10: when a submission POST is rejected, submitStatus becomes "error", no
\* field changes, isSubmitting becomes false and no write request is issued;
\* write requests are issued by clicks on the submit control only.
C10_SubmitFailure ==
    /\ [][(Len(outcomes') = Len(outcomes) + 1 /\ Last(outcomes') = "error")
          => (/\ submitStatus' = "error"
              /\ formData' = formData
              /\ ~isSubmitting'
              /\ postCount' = postCount
              /\ inflightPosts' = <<>>)]_vars
    /\ [][postCount' # postCount => submitAttempts' # submitAttempts]_vars

\* C10 witness: a POST was rejected and the typed subject is still in the form
C10_Witness ==
    /\ outcomes # <<>> /\ Last(outcomes) = "error"
    /\ submitStatus = "error" /\ ~isSubmitting
    /\ formData.subject = "b" /\ FormValid
    /\ inflightPosts = <<>>

\* C11: at most one of the success and error banners is shown, the banner
\* shown is the outcome of the submission settled last, and no banner is
\* shown while a submission is in flight
C11_Banners ==
    /\ ~(SuccessBannerShown /\ ErrorBannerShown)
    /\ isSubmitting => ~SuccessBannerShown /\ ~ErrorBannerShown
    /\ SuccessBannerShown => outcomes # <<>> /\ Last(outcomes) = "success"
    /\ ErrorBannerShown => outcomes # <<>> /\ Last(outcomes) = "error"
    /\ (outcomes # <<>> /\ ~isSubmitting) =>
          (SuccessBannerShown \/ ErrorBannerShown)

\* a success banner was replaced by the error banner of the next submission
C11_Witness ==
    /\ ErrorBannerShown /\ ~SuccessBannerShown
    /\ Len(outcomes) = 2 /\ outcomes[1] = "success"

\* C12: currentPage starts at 1, and after every resolved page fetch
\* totalPages is the least number of pages of 10 that hold the response's
\* count (25 gives 3, 3 gives 1)
C12_TotalPages ==
    /\ (route = "blog" /\ postsResp = NoData) => currentPage = 1
    /\ (route = "blog" /\ postsResp # NoData) =>
          /\ totalPages * PageSize >= lastCount
          /\ (totalPages - 1) * PageSize < lastCount
          /\ lastCount = 25 => totalPages = 3
          /\ lastCount = 3 => totalPages = 1

\* a response with count 25 was delivered
C12_Witness == route = "blog" /\ postsResp # NoData /\ lastCount = 25 /\ totalPages = 3

\* C13: wherever the pagination controls are rendered, Previous and Next are
\* both rendered, Previous is disabled exactly when currentPage = 1 and Next
\* is disabled exactly when currentPage = totalPages
C13_PrevNextDisabled ==
    PaginationRendered =>
        /\ PreviousRendered /\ NextRendered
        /\ PreviousDisabled <=> currentPage = 1
        /\ NextDisabled <=> currentPage = totalPages
        /\ PreviousDisabled => (currentPage - 1) \notin ClickablePages
        /\ NextDisabled => (currentPage + 1) \notin ClickablePages

\* the last page is shown: Next is rendered disabled, Previous enabled
C13_Witness ==
    /\ PaginationRendered /\ currentPage = totalPages /\ currentPage > 1
    /\ NextRendered /\ NextDisabled /\ ~PreviousDisabled

\* C14 as stated: the pagination controls are omitted when totalPages <= 1
\* and rendered when totalPages > 1
C14_VisibilityClaim ==
    (route = "blog" /\ ~crashed) => (PaginationRendered <=> totalPages > 1)

\* C14: the pagination controls are omitted when totalPages <= 1, and are
\* rendered exactly when a response was delivered, the displayed posts list
\* is not empty and the response's count exceeds one page
C14_PaginationVisibility ==
    (route = "blog" /\ ~crashed) =>
        /\ totalPages <= 1 => ~PaginationRendered
        /\ PaginationRendered <=>
              /\ postsResp # NoData
              /\ posts.v # <<>>
              /\ lastCount > PageSize

\* an empty page of a multi-page listing: the empty-state message without
\* the controls
C14_Witness ==
    /\ route = "blog" /\ ~crashed /\ ~blogLoading
    /\ posts = List(<<>>) /\ totalPages > 1
    /\ ~PaginationRendered

C16_ReadIndependenceClaim ==
    (route = "home" /\ homeStep = 0) => getCount = Len(HomeReads(homeBuild))

\* s is the first n elements of r, in order
IsFirstN(s, r, n) ==
    /\ Len(s) = (IF Len(r) < n THEN Len(r) ELSE n)
    /\ \A i \in 1..Len(s) : s[i] = r[i]

\* C17: after its read succeeded, the rendered skills are the first 6 of the
\* skills response in order (a 7th never present), the rendered projects are
\* the first 3 of the response's featured items in order (no item that is
\* not featured), and the rendered posts are the first 3 of the posts response
C17_HomeLimits ==
    route = "home" =>
        /\ IsList(homeResp.skills) =>
              /\ IsFirstN(homeSkills, homeResp.skills.v, 6)
              /\ \A i \in 1..Len(homeSkills) : homeSkills[i] < 7
        /\ IsList(homeResp.projects) =>
              LET r == homeResp.projects.v
                  fp == featuredProjects
              IN  /\ Len(fp) <= 3
                  /\ \A i \in 1..Len(fp) : fp[i].featured /\ r[fp[i].id] = fp[i]
                  /\ \A i \in 1..(Len(fp) - 1) : fp[i].id < fp[i + 1].id
                  /\ \A j \in 1..Len(r) :
                        r[j].featured =>
                            \/ \E i \in 1..Len(fp) : fp[i].id = j
                            \/ Len(fp) = 3 /\ j > fp[3].id
        /\ IsList(homeResp.posts) => IsFirstN(recentPosts, homeResp.posts.v, 3)

\* every read succeeded, with 7 skills, 4 projects one of them not featured,
\* and 4 posts
C17_Witness ==
    /\ route = "home" /\ homeStep = 0 /\ ~homeFailed
    /\ IsList(homeResp.skills) /\ Len(homeResp.skills.v) = 7 /\ Len(homeSkills) = 6
    /\ IsList(homeResp.projects) /\ Len(homeResp.projects.v) = 4
    /\ Len(featuredProjects) = 3
    /\ IsList(homeResp.posts) /\ Len(homeResp.posts.v) = 4 /\ Len(recentPosts) = 3

\* the detail view is loading while the fetch for the slug is pending, and
\* once every fetch has settled it is not-found after a rejected fetch or an
\* absent resource and loaded after a fetch resolved with a post
ThreeStates ==
    /\ BlogPostView \in { "loading", "not-found", "loaded" }
    /\ (\E i \in 1..Len(bpReqs) : bpReqs[i] = SlugOf(path)) =>
          BlogPostView = "loading"
    /\ (bpReqs = <<>> /\ bpLast.outcome \in { "rejected", "absent" }) =>
          BlogPostView = "not-found"
    /\ (bpReqs = <<>> /\ bpLast.outcome = "post") =>
          BlogPostView = "loaded" /\ post = bpLast.slug

\* C18 as stated: in every reachable state the blog post detail view is in
\* exactly one of loading, not-found and loaded; it is loading until the
\* fetch for the slug settles, a rejected fetch and an absent resource lead
\* to not-found, and a fetch resolved with a post leads to loaded
C18_ThreeStatesClaim == route = "blogpost" => ThreeStates

\* the same holds as long as the slug has not changed since the mount
C18_FirstSlugOnly == (route = "blogpost" /\ getCount = 1) => ThreeStates

\* the page view App maps the path to, none for an unmatched path
MappedView == IF RouteFor(path) = "none" THEN {} ELSE { RouteFor(path) }

\* C19 as stated: every path renders exactly its mapped view, an unmatched
\* path renders no page view, and the shell (navbar, main, footer) is
\* rendered for every path whatever the page view's fetch delivers
C19_RoutingClaim == ShellRendered /\ ViewRendered = MappedView

\* the mapping and the shell are as claimed until a page view's render throws
C19_UntilRenderThrows == ~crashed => (ShellRendered /\ ViewRendered = MappedView)

C21_FilterFrame ==
    [][(route = "portfolio" /\ clickHistory' # clickHistory) =>
          /\ UNCHANGED << getCount, postCount, projectsReq >>
          /\ UNCHANGED << projects, loading >>
          /\ UNCHANGED << route, crashed, consoleErrors, unhandledRejections,
                          filterField, projectsResp >>
          /\ UNCHANGED << contactVars, blogVars, otherViewVars >>]_vars

\* a click narrowed the visible list of a loaded Portfolio
C21_Witness ==
    /\ route = "portfolio" /\ clickHistory # <<>> /\ ~loading
    /\ IsList(projects) /\ Len(projects.v) = MaxItems
    /\ filteredProjects # projects
    /\ getCount = 1

\* C22: fetchSkills requests the first page and follows next one request at
\* a time until next is null; skills stays empty until then and is set once,
\* to the concatenation of the pages' results in request order
C22_SkillsLoading ==
    route = "about" =>
        /\ \A i \in 1..(Len(aboutPages) - 1) : aboutPages[i].next
        /\ aboutPage > 0 =>
              /\ aboutSkills = <<>>
              /\ aboutPage = Len(aboutPages) + 1 /\ getCount = aboutPage
              /\ \A i \in 1..Len(aboutPages) : aboutPages[i].next
        /\ (aboutPage = 0 /\ ~aboutFailed) =>
              /\ aboutPages # <<>> /\ ~Last(aboutPages).next
              /\ getCount = Len(aboutPages)
              /\ aboutSkills =
                    Concat([i \in 1..Len(aboutPages) |-> aboutPages[i].results])

\* two pages were followed and both carried skills
C22_Witness ==
    /\ route = "about" /\ aboutPage = 0 /\ ~aboutFailed
    /\ Len(aboutPages) = 2 /\ aboutSkills = PageSkills(1) \o PageSkills(2)

\* C29: when a page of the chain is rejected, skills stays empty whatever
\* the earlier pages delivered, no further page is requested and one
\* diagnostic is logged
C29_AllOrNothing ==
    (route = "about" /\ aboutFailed) =>
        /\ aboutSkills = <<>>
        /\ aboutPage = 0
        /\ getCount = Len(aboutPages) + 1
        /\ consoleErrors = 1

\* the second page failed after the first delivered skills
C29_Witness ==
    /\ route = "about" /\ aboutFailed /\ Len(aboutPages) = 1
    /\ aboutPages[1].results = PageSkills(1) /\ aboutSkills = <<>>

C24_ResponseOrderingClaim ==
    (/\ route = "blog" /\ ~crashed
     /\ blogReqs = <<>> /\ consoleErrors = 0
     /\ postsResp # NoData /\ posts.v # <<>>) =>
        posts.v = PagePosts(currentPage)

\* with a single request in flight at a time the responses cannot overtake
\* one another, and the claim's conclusion holds
C24_OneRequestAtATime ==
    (/\ route = "blog" /\ ~crashed
     /\ blogReqs = <<>> /\ consoleErrors = 0
     /\ postsResp # NoData /\ posts.v # <<>>
     /\ getCount <= 2) =>
        posts.v = PagePosts(currentPage)

\* C25 as stated: wherever the pagination controls are rendered,
\* 1 <= currentPage <= totalPages
C25_PageBoundsClaim ==
    PaginationRendered => (1 <= currentPage /\ currentPage <= totalPages)

\* the lower bound alone holds: no control offers a page below 1
C25_LowerBound == route = "blog" => currentPage >= 1

\* C26: when the read request of a page change is rejected, posts,
\* totalPages and currentPage are left as they are, loading stays false, one
\* diagnostic is logged and no request is issued
C26_PageChangeFailure ==
    [][(route = "blog" /\ ~blogLoading /\ consoleErrors' = consoleErrors + 1) =>
          /\ UNCHANGED << posts, totalPages, currentPage >>
          /\ ~blogLoading'
          /\ UNCHANGED << getCount, crashed >>
          /\ Len(blogReqs') = Len(blogReqs) - 1]_vars

\* page 2 was selected and its request rejected: page 1 stays displayed
C26_Witness ==
    /\ route = "blog" /\ ~crashed /\ ~blogLoading
    /\ currentPage = 2 /\ posts = List(PagePosts(1))
    /\ blogReqs = <<>> /\ getCount = 2 /\ consoleErrors = 1

\* the project p passes the filter of key k
Passes(p, k) ==
    \/ k = "all"
    \/ filterField = "category" /\ p.category = k
    \/ filterField = "technology" /\ p.hasTech
          /\ \E j \in 1..Len(p.technologies) : p.technologies[j] = k

\* C27: once the mount-time fetch has settled, filteredProjects is projects
\* filtered by selectedCategory (all of projects for "all"), in the order of
\* projects, and selectedCategory is one of the rendered filter keys
C27_DerivedState ==
    (route = "portfolio" /\ projectsReq \in { "resolved", "rejected" }) =>
        LET ps == projects.v
            fs == filteredProjects.v
        IN  /\ filteredProjects.tag = projects.tag
            /\ \A i \in 1..Len(fs) : ps[fs[i].id] = fs[i] /\ Passes(fs[i], selectedCategory)
            /\ \A i \in 1..(Len(fs) - 1) : fs[i].id < fs[i + 1].id
            /\ \A j \in 1..Len(ps) :
                  Passes(ps[j], selectedCategory) => \E i \in 1..Len(fs) : fs[i] = ps[j]
            /\ selectedCategory = "all" => filteredProjects = projects
            /\ \E k \in 1..Len(FilterKeys) : FilterKeys[k] = selectedCategory

\* a filter other than "all" is active and hides some of the projects
C27_Witness ==
    /\ route = "portfolio" /\ projectsReq = "resolved" /\ ~crashed
    /\ selectedCategory \notin { "all", "" }
    /\ filteredProjects.v # <<>> /\ Len(filteredProjects.v) < Len(projects.v)

\* C28 as stated: across slug changes, once the fetch for the current slug
\* has resolved with a post the view is loaded and shows that post, whether
\* the fetch for an earlier slug was rejected or resolves later
C28_SlugChangeClaim ==
    (route = "blogpost" /\ bpCurrent = "post") =>
        (BlogPostView = "loaded" /\ post = SlugOf(path))

====
